---------------------------- MODULE Spec2Model ----------------------------
(***************************************************************************)
(* A model of policyengine/outputs/macro/comparison/                       *)
(* calculate_economy_comparison.py: the comparison of a baseline and a     *)
(* reform economy.                                                         *)
(*                                                                         *)
(* Money amounts are integers.  A floating-point quotient is modelled as   *)
(* an exact fraction [n, d] in lowest terms, with the three IEEE special   *)
(* values a numpy division produces: 0/0 is NaN ([n |-> 0, d |-> 0]) and   *)
(* x/0 is +inf or -inf ([n |-> 1, d |-> 0], [n |-> -1, d |-> 0]).          *)
(* Rounding is not modelled.                                               *)
(***************************************************************************)
EXTENDS Integers, Sequences, FiniteSets, TLC

(***************************************************************************)
(* Bounds of the model.                                                    *)
(***************************************************************************)
NumHouseholds == 2
NumPersons == 2
NumAreas == 2
MaxWeight == 2
MaxPeople == 2
MaxMoney == 1

\* Python's None, and the values a nullable field or return value takes
None == [is |-> "None"]
List(values) == [is |-> "list", values |-> values]
Dict(items) == [is |-> "dict", items |-> items]

(***************************************************************************)
(* Floating-point values.                                                  *)
(***************************************************************************)
Abs(x) == IF x < 0 THEN -x ELSE x

RECURSIVE GCD(_, _)
GCD(a, b) == IF b = 0 THEN a ELSE GCD(b, a % b)

NaN == [n |-> 0, d |-> 0]
PosInf == [n |-> 1, d |-> 0]
NegInf == [n |-> -1, d |-> 0]

IsNaN(x) == x.d = 0 /\ x.n = 0
IsFinite(x) == x.d > 0

\* the float a / b of two integer-valued floats (numpy: no ZeroDivisionError)
Div(a, b) ==
    IF b = 0
    THEN IF a = 0 THEN NaN ELSE IF a > 0 THEN PosInf ELSE NegInf
    ELSE LET g == GCD(Abs(a), Abs(b))
             s == IF b < 0 THEN -1 ELSE 1
         IN [n |-> (s * a) \div g, d |-> (s * b) \div g]

Num(a) == [n |-> a, d |-> 1]
Zero == Num(0)
One == Num(1)

\* x / y for two floats
FDiv(x, y) ==
    IF IsNaN(x) \/ IsNaN(y) THEN NaN
    ELSE IF ~IsFinite(x) /\ ~IsFinite(y) THEN NaN
    ELSE IF ~IsFinite(x) THEN (IF y.n < 0 THEN [n |-> -x.n, d |-> 0] ELSE x)
    ELSE IF ~IsFinite(y) THEN Zero
    ELSE Div(x.n * y.d, x.d * y.n)

\* x + y
FAdd(x, y) ==
    IF IsNaN(x) \/ IsNaN(y) THEN NaN
    ELSE IF ~IsFinite(x) /\ ~IsFinite(y) THEN (IF x.n = y.n THEN x ELSE NaN)
    ELSE IF ~IsFinite(x) THEN x
    ELSE IF ~IsFinite(y) THEN y
    ELSE Div(x.n * y.d + y.n * x.d, x.d * y.d)

\* -x
FNeg(x) == [n |-> -x.n, d |-> x.d]

\* x - y
FSub(x, y) == FAdd(x, FNeg(y))

\* x > y: False when either side is NaN
FGt(x, y) ==
    IF IsNaN(x) \/ IsNaN(y) THEN FALSE
    ELSE IF ~IsFinite(x) /\ ~IsFinite(y) THEN x.n > y.n
    ELSE IF ~IsFinite(x) THEN x.n > 0
    ELSE IF ~IsFinite(y) THEN y.n < 0
    ELSE x.n * y.d > y.n * x.d

\* x <= y: False when either side is NaN
FLe(x, y) == ~IsNaN(x) /\ ~IsNaN(y) /\ ~FGt(x, y)

\* np.maximum(x, 1)
Max(a, b) == IF a >= b THEN a ELSE b


(***************************************************************************)
(* Inputs.  A household profile is one row of the household-level arrays   *)
(* of the two economies: the population columns (weight, people, decile    *)
(* ranks), which baseline and reform share, and its net income under each. *)
(***************************************************************************)
Household(w, p, dec, wdec, b, r) ==
    [weight |-> w, people |-> p, income_decile |-> dec, wealth_decile |-> wdec,
     baseline_income |-> b, reform_income |-> r]

\* (baseline, reform) net incomes: no change, the changes that land exactly on
\* a bound of the classification, 3% and 50% changes, incomes below the floor
IncomePairs ==
    { <<100, 100>>, <<40, 41>>, <<40, 39>>, <<2000, 2001>>, <<2000, 1999>>,
      <<100, 103>>, <<100, 97>>, <<100, 150>>, <<0, 0>>, <<0, 5>>,
      <<-10, 5>>, <<100, 0>> }

\* decile ranks: -1 marks a household outside the ranked population
Ranks == {-1, 0, 1, 2, 10}

HouseholdProfiles ==
    { Household(1, 1, 1, 1, ip[1], ip[2]) : ip \in IncomePairs }
    \cup { Household(1, 1, k, 1, 100, 150) : k \in Ranks }
    \cup { Household(1, 1, 1, k, 100, 150) : k \in Ranks }
    \cup { Household(w, p, 1, 1, 100, 150) : w \in 0..MaxWeight, p \in 0..MaxPeople }

\* The rows that vary freely; a population has NumHouseholds rows (NumPersons,
\* NumAreas), and the rows after these take the default profile.
Varied == {1, 2}

DefaultHousehold == Household(1, 2, 2, 2, 100, 100)

Households(free) ==
    [i \in 1..NumHouseholds |-> IF i \in DOMAIN free THEN free[i] ELSE DefaultHousehold]

\* the households of the constituency inputs
AreaHouseholdProfiles ==
    { Household(1, 1, 1, 1, ip[1], ip[2]) :
        ip \in { <<100, 100>>, <<100, 150>>, <<40, 39>> } }

\* 10 households, weights 1, baseline 10..100, decile 1..10, decile 10 gains 50
ScenarioHouseholds ==
    [i \in 1..10 |->
        Household(1, 1, i, i, 10 * i, 10 * i + (IF i = 10 THEN 50 ELSE 0))]

DefaultHouseholds ==
    Households([i \in Varied |->
                    IF i = 1 THEN Household(1, 1, 1, 1, 100, 150) ELSE DefaultHousehold])

(***************************************************************************)
(* A person profile is one row of the person-level arrays.                 *)
(***************************************************************************)
Person(w, a, m, rc, bp, bd, rp, rd) ==
    [weight |-> w, age |-> a, is_male |-> m, race |-> rc,
     baseline_poverty |-> bp, baseline_deep |-> bd,
     reform_poverty |-> rp, reform_deep |-> rd]

Races == {"WHITE", "BLACK", "HISPANIC", "OTHER"}

PersonProfiles ==
    { Person(1, a, TRUE, "WHITE", TRUE, FALSE, rp, FALSE) :
        a \in {17, 18, 64, 65}, rp \in BOOLEAN }
    \cup { Person(w, 30, FALSE, "BLACK", TRUE, TRUE, TRUE, FALSE) : w \in 0..MaxWeight }
    \cup { Person(1, 30, m, rc, TRUE, TRUE, FALSE, FALSE) : m \in BOOLEAN, rc \in Races }

DefaultPerson == Person(2, 70, FALSE, "OTHER", TRUE, TRUE, TRUE, FALSE)

Persons(free) ==
    [i \in 1..NumPersons |-> IF i \in DOMAIN free THEN free[i] ELSE DefaultPerson]

DefaultPersons ==
    Persons([i \in Varied |->
                IF i = 1 THEN Person(1, 30, TRUE, "WHITE", TRUE, FALSE, FALSE, FALSE)
                         ELSE DefaultPerson])

(***************************************************************************)
(* The scalar totals of an economy and its per-program totals.             *)
(***************************************************************************)
Money == 0..MaxMoney

Programs == {"income_tax", "universal_credit"}

Totals(t, st, b) == [total_tax |-> t, total_state_tax |-> st, total_benefits |-> b]

DefaultTotals == [baseline |-> Totals(1, 0, 1), reform |-> Totals(0, 1, 0)]

DefaultPrograms ==
    [baseline |-> [p \in Programs |-> 1], reform |-> [p \in Programs |-> 0]]

(***************************************************************************)
(* SingleEconomy: the fields this file reads.  side is "baseline" or       *)
(* "reform"; both sides carry the same population columns.                 *)
(***************************************************************************)
Economy(side, type, totals, programs, hh, persons, hasSex, hasRace) ==
    [type |-> type,
     total_tax |-> totals[side].total_tax,
     total_state_tax |-> totals[side].total_state_tax,
     total_benefits |-> totals[side].total_benefits,
     total_net_income |-> IF side = "baseline" THEN 1000 ELSE 1001,
     programs |-> programs[side],
     household_weight |-> [i \in DOMAIN hh |-> hh[i].weight],
     household_count_people |-> [i \in DOMAIN hh |-> hh[i].people],
     household_income_decile |-> [i \in DOMAIN hh |-> hh[i].income_decile],
     household_wealth_decile |-> [i \in DOMAIN hh |-> hh[i].wealth_decile],
     household_net_income |->
        [i \in DOMAIN hh |->
            IF side = "baseline" THEN hh[i].baseline_income ELSE hh[i].reform_income],
     gini |-> IF side = "baseline" THEN Div(2, 5) ELSE Div(1, 3),
     top_10_percent_share |-> IF side = "baseline" THEN Div(3, 10) ELSE Div(1, 4),
     top_1_percent_share |-> IF side = "baseline" THEN Div(1, 10) ELSE Div(1, 10),
     person_weight |-> [i \in DOMAIN persons |-> persons[i].weight],
     age |-> [i \in DOMAIN persons |-> persons[i].age],
     is_male |-> IF hasSex THEN List([i \in DOMAIN persons |-> persons[i].is_male]) ELSE None,
     race |-> IF hasRace THEN List([i \in DOMAIN persons |-> persons[i].race]) ELSE None,
     person_in_poverty |->
        [i \in DOMAIN persons |->
            IF side = "baseline" THEN persons[i].baseline_poverty
                                 ELSE persons[i].reform_poverty],
     person_in_deep_poverty |->
        [i \in DOMAIN persons |->
            IF side = "baseline" THEN persons[i].baseline_deep
                                 ELSE persons[i].reform_deep],
     substitution_lsr |-> IF side = "baseline" THEN 0 ELSE 3,
     income_lsr |-> IF side = "baseline" THEN 0 ELSE -1,
     budgetary_impact_lsr |-> IF side = "baseline" THEN 0 ELSE 1,
     substitution_lsr_hh |-> [i \in DOMAIN hh |-> IF side = "baseline" THEN 0 ELSE 2],
     income_lsr_hh |-> [i \in DOMAIN hh |-> IF side = "baseline" THEN 0 ELSE -1],
     employment_income_hh |-> [i \in DOMAIN hh |-> 50],
     self_employment_income_hh |-> [i \in DOMAIN hh |-> 10],
     weekly_hours |-> IF side = "baseline" THEN 40 ELSE 41,
     weekly_hours_income_effect |-> IF side = "baseline" THEN 0 ELSE -1,
     weekly_hours_substitution_effect |-> IF side = "baseline" THEN 0 ELSE 2,
     cliff_gap |-> IF side = "baseline" THEN 7 ELSE 5,
     cliff_share |-> IF side = "baseline" THEN Div(1, 5) ELSE Div(1, 10)]

(***************************************************************************)
(* The external storage read by uk_constituency_breakdown: the weight      *)
(* matrix (one row of household weights per area) and the table of area    *)
(* code, name and position.  A code is its sequence of characters.         *)
(***************************************************************************)
Codes ==
    { <<"E", "1", "4">>, <<"S", "1", "4">>, <<"W", "0", "7">>, <<"N", "0", "6">> }

Area(code, weight) == [code |-> code, weight |-> weight]

AreaProfiles(n) ==
    { Area(c, [i \in 1..n |-> 1]) : c \in Codes }
    \cup { Area(<<"E", "1", "4">>, w) : w \in [1..n -> 0..1] }

Areas(free, n) ==
    [j \in 1..NumAreas |->
        IF j \in DOMAIN free THEN free[j]
        ELSE Area(<<"W", "0", "7">>, [i \in 1..n |-> 1])]

Storage(areas) ==
    [weights |-> [j \in DOMAIN areas |-> areas[j].weight],
     constituency_names |->
        [j \in DOMAIN areas |->
            [code |-> areas[j].code, name |-> j, x |-> 10 * j, y |-> 10 * j + 1]]]

DefaultStorage(n) ==
    Storage(Areas([j \in Varied |->
                      Area(IF j = 1 THEN <<"E", "1", "4">> ELSE <<"S", "1", "4">>,
                           [i \in 1..n |-> 1])], n))


(***************************************************************************)
(* The weighted series (microdf.MicroSeries): values paired with weights   *)
(* over a set of row indices.                                              *)
(***************************************************************************)
RECURSIVE SumOver(_, _)
SumOver(f, S) ==
    IF S = {} THEN 0
    ELSE LET i == CHOOSE j \in S : TRUE IN f[i] + SumOver(f, S \ {i})

MicroSeries(values, weights) == [values |-> values, weights |-> weights]

Index(s) == DOMAIN s.values

\* series[mask]: the rows where mask holds, pairing preserved
Masked(s, mask) ==
    LET keep == {i \in Index(s) : mask[i]}
    IN [values |-> [i \in keep |-> s.values[i]],
        weights |-> [i \in keep |-> s.weights[i]]]

\* a - b, element-wise
Minus(a, b) ==
    [values |-> [i \in Index(a) |-> a.values[i] - b.values[i]], weights |-> a.weights]

\* a variant of WeightedSum that ignores the weights
UnweightedSum(s) == SumOver(s.values, Index(s))

\* series.sum(): the weighted sum
WeightedSum(s) == SumOver([i \in Index(s) |-> s.values[i] * s.weights[i]], Index(s))

\* series.count(): the sum of the weights
WeightedCount(s) == SumOver(s.weights, Index(s))

\* series.mean()
WeightedMean(s) == Div(WeightedSum(s), WeightedCount(s))

\* series.groupby(key).sum(), one entry per key value among the rows of s
GroupBySum(s, key) ==
    [k \in {key[i] : i \in Index(s)} |->
        WeightedSum(Masked(s, [i \in Index(s) |-> key[i] = k]))]

\* series.groupby(key).count()
GroupByCount(s, key) ==
    [k \in {key[i] : i \in Index(s)} |->
        WeightedCount(Masked(s, [i \in Index(s) |-> key[i] = k]))]

\* a variant of Ratio that gives 0 for a group whose divisor is 0
RatioZeroForZeroDivisor(a, b) ==
    [k \in DOMAIN a |-> IF b[k] = 0 THEN Zero ELSE Div(a[k], b[k])]

\* a / b for two grouped results over the same keys
Ratio(a, b) == [k \in DOMAIN a |-> Div(a[k], b[k])]

B2I(b) == IF b THEN 1 ELSE 0

(***************************************************************************)
(* budgetary_impact                                                        *)
(***************************************************************************)
budgetary_impact(baseline, reform) ==
    LET tax_revenue_impact == reform.total_tax - baseline.total_tax
        state_tax_revenue_impact == reform.total_state_tax - baseline.total_state_tax
        benefit_spending_impact == reform.total_benefits - baseline.total_benefits
    IN [budgetary_impact |-> tax_revenue_impact - benefit_spending_impact,
        tax_revenue_impact |-> tax_revenue_impact,
        state_tax_revenue_impact |-> state_tax_revenue_impact,
        benefit_spending_impact |-> benefit_spending_impact,
        households |->
            SumOver(baseline.household_weight, DOMAIN baseline.household_weight),
        baseline_net_income |-> baseline.total_net_income]

(***************************************************************************)
(* detailed_budgetary_impact                                               *)
(***************************************************************************)
detailed_budgetary_impact(baseline, reform, country_id) ==
    IF country_id = "uk"
    THEN Dict([program \in DOMAIN baseline.programs |->
                [baseline |-> baseline.programs[program],
                 reform |-> reform.programs[program],
                 difference |-> reform.programs[program] - baseline.programs[program]]])
    ELSE Dict(<<>>)

(***************************************************************************)
(* decile_impact and wealth_decile_impact: the same computation on the     *)
(* income or the wealth decile rank of the baseline.                       *)
(***************************************************************************)
\* decile >= 0: the rows the filter keeps
DecileFilter(decile) == [i \in DOMAIN decile |-> decile[i] >= 0]

\* a variant of DecileChanges whose average divides by the weighted baseline
\* income, as the relative change does
DecileChangesAverageAsRelative(baseline, reform, decile) ==
    LET baseline_income ==
            MicroSeries(baseline.household_net_income, baseline.household_weight)
        reform_income ==
            MicroSeries(reform.household_net_income, baseline_income.weights)
        baseline_income_filtered == Masked(baseline_income, DecileFilter(decile))
        reform_income_filtered == Masked(reform_income, DecileFilter(decile))
        income_change == Minus(reform_income_filtered, baseline_income_filtered)
    IN [relative |->
            Ratio(GroupBySum(income_change, decile),
                  GroupBySum(baseline_income_filtered, decile)),
        average |->
            Ratio(GroupBySum(income_change, decile),
                  GroupBySum(baseline_income_filtered, decile))]

DecileChanges(baseline, reform, decile) ==
    LET baseline_income ==
            MicroSeries(baseline.household_net_income, baseline.household_weight)
        reform_income ==
            MicroSeries(reform.household_net_income, baseline_income.weights)
        baseline_income_filtered == Masked(baseline_income, DecileFilter(decile))
        reform_income_filtered == Masked(reform_income, DecileFilter(decile))
        income_change == Minus(reform_income_filtered, baseline_income_filtered)
    IN [relative |->
            Ratio(GroupBySum(income_change, decile),
                  GroupBySum(baseline_income_filtered, decile)),
        average |->
            Ratio(GroupBySum(income_change, decile),
                  GroupByCount(baseline_income_filtered, decile))]

decile_impact(baseline, reform) ==
    DecileChanges(baseline, reform, baseline.household_income_decile)

wealth_decile_impact(baseline, reform, country_id) ==
    IF country_id # "uk" THEN None
    ELSE LET r == DecileChanges(baseline, reform, baseline.household_wealth_decile)
         IN [is |-> "WealthDecileImpactWithValues",
             relative |-> r.relative, average |-> r.average]

(***************************************************************************)
(* inequality_impact                                                       *)
(***************************************************************************)
inequality_impact(baseline, reform) ==
    [gini |-> [baseline |-> baseline.gini, reform |-> reform.gini],
     top_10_pct_share |->
        [baseline |-> baseline.top_10_percent_share,
         reform |-> reform.top_10_percent_share],
     top_1_pct_share |->
        [baseline |-> baseline.top_1_percent_share,
         reform |-> reform.top_1_percent_share]]


(***************************************************************************)
(* poverty_impact, poverty_gender_breakdown, poverty_racial_breakdown      *)
(***************************************************************************)
\* float(series[mask].mean()) for baseline and reform, both on the baseline's
\* person weights
PovertyPair(baseline, reform, field, mask) ==
    [baseline |->
        WeightedMean(Masked(MicroSeries([i \in DOMAIN baseline[field] |->
                                            B2I(baseline[field][i])],
                                        baseline.person_weight), mask)),
     reform |->
        WeightedMean(Masked(MicroSeries([i \in DOMAIN reform[field] |->
                                            B2I(reform[field][i])],
                                        baseline.person_weight), mask))]

AgeGroups(baseline, reform, field) ==
    LET age == baseline.age
    IN [child |-> PovertyPair(baseline, reform, field,
                              [i \in DOMAIN age |-> age[i] < 18]),
        adult |-> PovertyPair(baseline, reform, field,
                              [i \in DOMAIN age |-> age[i] >= 18 /\ age[i] < 65]),
        senior |-> PovertyPair(baseline, reform, field,
                               [i \in DOMAIN age |-> age[i] >= 65]),
        all |-> PovertyPair(baseline, reform, field, [i \in DOMAIN age |-> TRUE])]

poverty_impact(baseline, reform) ==
    [poverty |-> AgeGroups(baseline, reform, "person_in_poverty"),
     deep_poverty |-> AgeGroups(baseline, reform, "person_in_deep_poverty")]

GenderGroups(baseline, reform, field) ==
    LET is_male == baseline.is_male.values
    IN [male |-> PovertyPair(baseline, reform, field, is_male),
        female |-> PovertyPair(baseline, reform, field,
                               [i \in DOMAIN is_male |-> ~is_male[i]])]

\* returns the empty dict, not None, when the baseline has no sex flag
poverty_gender_breakdown(baseline, reform) ==
    IF baseline.is_male = None THEN Dict(<<>>)
    ELSE [is |-> "PovertyGenderBreakdown",
          poverty |-> GenderGroups(baseline, reform, "person_in_poverty"),
          deep_poverty |-> GenderGroups(baseline, reform, "person_in_deep_poverty")]

poverty_racial_breakdown(baseline, reform) ==
    IF baseline.race = None THEN None
    ELSE LET race == baseline.race.values
             Of(name) == PovertyPair(baseline, reform, "person_in_poverty",
                                     [i \in DOMAIN race |-> race[i] = name])
         IN [is |-> "PovertyRacialBreakdownWithValues",
             poverty |-> [white |-> Of("WHITE"), black |-> Of("BLACK"),
                          hispanic |-> Of("HISPANIC"), other |-> Of("OTHER")]]

(***************************************************************************)
(* intra_decile_impact and intra_wealth_decile_impact                      *)
(***************************************************************************)
BOUNDS == <<NegInf, Div(-5, 100), Div(-1, 1000), Div(1, 1000), Div(5, 100), PosInf>>

LABELS ==
    << "Lose more than 5%", "Lose less than 5%", "No change",
       "Gain less than 5%", "Gain more than 5%" >>

\* the floor-protected proportional change of household i
IncomeChange(baseline, reform, i) ==
    LET absolute_change == reform.household_net_income[i] - baseline.household_net_income[i]
        capped_baseline_income == Max(baseline.household_net_income[i], 1)
        capped_reform_income == Max(reform.household_net_income[i], 1) + absolute_change
    IN Div(capped_reform_income - capped_baseline_income, capped_baseline_income)

\* a variant of InGroup with both ends of the interval inclusive
InGroupClosed(income_change, g) ==
    FLe(BOUNDS[g], income_change) /\ FLe(income_change, BOUNDS[g + 1])

\* a variant of InGroup with the lower end inclusive and the upper exclusive
InGroupLowerInclusive(income_change, g) ==
    FLe(BOUNDS[g], income_change) /\ FGt(BOUNDS[g + 1], income_change)

\* (income_change > lower) & (income_change <= upper) for the g-th label
InGroup(income_change, g) ==
    FGt(income_change, BOUNDS[g]) /\ FLe(income_change, BOUNDS[g + 1])

\* a variant of PeopleInProportion that always divides
PeopleInProportionAlwaysDivides(baseline, reform, decile, g, d) ==
    LET people == MicroSeries(baseline.household_count_people, baseline.household_weight)
        in_decile == [i \in DOMAIN decile |-> decile[i] = d]
        in_both == [i \in DOMAIN decile |->
                        in_decile[i] /\ InGroup(IncomeChange(baseline, reform, i), g)]
        people_in_both == WeightedSum(Masked(people, in_both))
        people_in_decile == WeightedSum(Masked(people, in_decile))
    IN Div(people_in_both, people_in_decile)

\* the share appended for label g and decile d
PeopleInProportion(baseline, reform, decile, g, d) ==
    LET people == MicroSeries(baseline.household_count_people, baseline.household_weight)
        in_decile == [i \in DOMAIN decile |-> decile[i] = d]
        in_both == [i \in DOMAIN decile |->
                        in_decile[i] /\ InGroup(IncomeChange(baseline, reform, i), g)]
        people_in_both == WeightedSum(Masked(people, in_both))
        people_in_decile == WeightedSum(Masked(people, in_decile))
    IN IF people_in_decile = 0 /\ people_in_both = 0
       THEN Zero
       ELSE Div(people_in_both, people_in_decile)

RECURSIVE FSumTo(_, _)
FSumTo(f, n) == IF n = 0 THEN Zero ELSE FAdd(FSumTo(f, n - 1), f[n])

IntraDeciles(baseline, reform, decile) ==
    LET outcome_groups ==
            [g \in 1..5 |->
                [d \in 1..10 |-> PeopleInProportion(baseline, reform, decile, g, d)]]
    IN [deciles |-> [l \in {LABELS[g] : g \in 1..5} |->
                        outcome_groups[CHOOSE g \in 1..5 : LABELS[g] = l]],
        all |-> [l \in {LABELS[g] : g \in 1..5} |->
                    FDiv(FSumTo(outcome_groups[CHOOSE g \in 1..5 : LABELS[g] = l], 10),
                         Num(10))]]

intra_decile_impact(baseline, reform) ==
    IntraDeciles(baseline, reform, baseline.household_income_decile)

intra_wealth_decile_impact(baseline, reform, country_id) ==
    IF country_id # "uk" THEN None
    ELSE LET r == IntraDeciles(baseline, reform, baseline.household_wealth_decile)
         IN [is |-> "IntraWealthDecileImpactWithValues",
             deciles |-> r.deciles, all |-> r.all]

(***************************************************************************)
(* uk_constituency_breakdown                                               *)
(***************************************************************************)
Regions == {"uk", "england", "scotland", "wales", "northern_ireland"}

\* "c" in code
Contains(code, c) == \E k \in DOMAIN code : code[k] = c

\* a variant of RegionsOf whose chain has no branch for 'N'
RegionsOfNoNorthernIreland(code) ==
    {"uk"} \cup
    (IF Contains(code, "E") THEN {"england"}
     ELSE IF Contains(code, "S") THEN {"scotland"}
     ELSE IF Contains(code, "W") THEN {"wales"}
     ELSE {})

\* the regions an area is tallied in
RegionsOf(code) ==
    {"uk"} \cup
    (IF Contains(code, "E") THEN {"england"}
     ELSE IF Contains(code, "S") THEN {"scotland"}
     ELSE IF Contains(code, "W") THEN {"wales"}
     ELSE IF Contains(code, "N") THEN {"northern_ireland"}
     ELSE {})

\* the chain of > tests on the area's relative change
Bucket(percent_household_income_change) ==
    IF FGt(percent_household_income_change, Div(5, 100)) THEN "Gain more than 5%"
    ELSE IF FGt(percent_household_income_change, Div(1, 1000)) THEN "Gain less than 5%"
    ELSE IF FGt(percent_household_income_change, Div(-1, 1000)) THEN "No change"
    ELSE IF FGt(percent_household_income_change, Div(-5, 100)) THEN "Lose less than 5%"
    ELSE "Lose more than 5%"

\* the per-area entry computed for row i of the weight matrix
ConstituencyEntry(baseline, reform, storage, i) ==
    LET weight == storage.weights[i]
        baseline_income == MicroSeries(baseline.household_net_income, weight)
        reform_income == MicroSeries(reform.household_net_income, weight)
    IN [average_household_income_change |->
            Div(WeightedSum(reform_income) - WeightedSum(baseline_income),
                WeightedCount(baseline_income)),
        relative_household_income_change |->
            FSub(Div(WeightedSum(reform_income), WeightedSum(baseline_income)), One),
        x |-> storage.constituency_names[i].x,
        y |-> storage.constituency_names[i].y]

uk_constituency_breakdown(baseline, reform, country_id, storage) ==
    IF country_id # "uk" THEN None
    ELSE LET rows == DOMAIN storage.constituency_names
             entry == [i \in rows |-> ConstituencyEntry(baseline, reform, storage, i)]
             bucket == [i \in rows |-> Bucket(entry[i].relative_household_income_change)]
         IN [is |-> "UKConstituencyBreakdownWithValues",
             by_constituency |->
                [name \in {storage.constituency_names[i].name : i \in rows} |->
                    entry[CHOOSE i \in rows :
                            /\ storage.constituency_names[i].name = name
                            /\ \A j \in rows :
                                 storage.constituency_names[j].name = name => j <= i]],
             outcomes_by_region |->
                [region \in Regions |->
                    [b \in {LABELS[g] : g \in 1..5} |->
                        Cardinality({i \in rows :
                            /\ region \in RegionsOf(storage.constituency_names[i].code)
                            /\ bucket[i] = b})]]]

\* a variant of Downloads that reads before the country is checked
DownloadsBeforeCountryCheck(country_id) == 2

\* the external reads uk_constituency_breakdown performs: the weight matrix
\* and the table of names
Downloads(country_id) == IF country_id # "uk" THEN 0 ELSE 2


(***************************************************************************)
(* labor_supply_response                                                   *)
(***************************************************************************)
\* series.groupby(key).mean()
GroupByMean(s, key) == Ratio(GroupBySum(s, key), GroupByCount(s, key))

\* {int(k): v for k, v in d.items() if k > 0}
PositiveKeys(d) == [k \in {j \in DOMAIN d : j > 0} |-> d[k]]

labor_supply_response(baseline, reform) ==
    LET rows == DOMAIN baseline.household_weight
        substitution_lsr == reform.substitution_lsr - baseline.substitution_lsr
        income_lsr == reform.income_lsr - baseline.income_lsr
        decile == baseline.household_income_decile
        household_weight == baseline.household_weight
        sub_hh == [i \in rows |-> reform.substitution_lsr_hh[i]
                                    - baseline.substitution_lsr_hh[i]]
        inc_hh == [i \in rows |-> reform.income_lsr_hh[i] - baseline.income_lsr_hh[i]]
        original_earnings ==
            MicroSeries([i \in rows |-> baseline.employment_income_hh[i]
                                          + baseline.self_employment_income_hh[i]
                                          - (sub_hh[i] + inc_hh[i])],
                        household_weight)
        substitution_lsr_hh == MicroSeries(sub_hh, household_weight)
        income_lsr_hh == MicroSeries(inc_hh, household_weight)
    IN [substitution_lsr |-> substitution_lsr,
        income_lsr |-> income_lsr,
        relative_lsr |->
            [income |-> Div(WeightedSum(income_lsr_hh), WeightedSum(original_earnings)),
             substitution |-> Div(WeightedSum(substitution_lsr_hh),
                                  WeightedSum(original_earnings))],
        total_change |-> substitution_lsr + income_lsr,
        revenue_change |-> reform.budgetary_impact_lsr - baseline.budgetary_impact_lsr,
        decile |->
            [average |->
                [income |-> GroupByMean(income_lsr_hh, decile),
                 substitution |-> GroupByMean(substitution_lsr_hh, decile)],
             relative |->
                [income |->
                    PositiveKeys(Ratio(GroupBySum(income_lsr_hh, decile),
                                       GroupBySum(original_earnings, decile))),
                 substitution |->
                    PositiveKeys(Ratio(GroupBySum(substitution_lsr_hh, decile),
                                       GroupBySum(original_earnings, decile)))]],
        hours |->
            [baseline |-> baseline.weekly_hours,
             reform |-> reform.weekly_hours,
             change |-> reform.weekly_hours - baseline.weekly_hours,
             income_effect |-> reform.weekly_hours_income_effect
                                 - baseline.weekly_hours_income_effect,
             substitution_effect |-> reform.weekly_hours_substitution_effect
                                       - baseline.weekly_hours_substitution_effect]]

(***************************************************************************)
(* calculate_economy_comparison                                            *)
(***************************************************************************)
\* the report of the "general" branch, before the EconomyComparison model
\* validates it
GeneralReport(baseline, reform, country_id, storage) ==
    [is |-> "EconomyComparison",
     country_package_version |-> country_id,
     budget |-> budgetary_impact(baseline, reform),
     detailed_budget |-> detailed_budgetary_impact(baseline, reform, country_id),
     decile |-> decile_impact(baseline, reform),
     inequality |-> inequality_impact(baseline, reform),
     poverty |-> poverty_impact(baseline, reform),
     poverty_by_gender |-> poverty_gender_breakdown(baseline, reform),
     poverty_by_race |-> poverty_racial_breakdown(baseline, reform),
     intra_decile |-> intra_decile_impact(baseline, reform),
     wealth_decile |-> wealth_decile_impact(baseline, reform, country_id),
     intra_wealth_decile |-> intra_wealth_decile_impact(baseline, reform, country_id),
     labor_supply_response |-> labor_supply_response(baseline, reform),
     constituency_impact |->
        uk_constituency_breakdown(baseline, reform, country_id, storage)]

\* EconomyComparison declares poverty_by_gender: PovertyGenderBreakdown, a
\* model with two required fields and not nullable: the empty dict does not
\* validate as one
Validates(report) == report.poverty_by_gender.is = "PovertyGenderBreakdown"

CliffReport(baseline, reform) ==
    [is |-> "dict",
     baseline |-> [cliff_gap |-> baseline.cliff_gap, cliff_share |-> baseline.cliff_share],
     reform |-> [cliff_gap |-> reform.cliff_gap, cliff_share |-> reform.cliff_share]]


(***************************************************************************)
(* The inputs of one call: the simulation (whose calculate_single_economy  *)
(* yields the two economies) and the content of the external storage.      *)
(***************************************************************************)
Countries == {"uk", "us"}
Types == {"general", "cliff"}

Simulation(is_comparison, country, type, totals, programs, hh, persons, hasSex, hasRace) ==
    [is_comparison |-> is_comparison,
     options |-> [country |-> country],
     baseline_economy |->
        Economy("baseline", type, totals, programs, hh, persons, hasSex, hasRace),
     reform_economy |->
        Economy("reform", type, totals, programs, hh, persons, hasSex, hasRace)]

Input(sim, storage) == [simulation |-> sim, storage |-> storage]

\* the flags the orchestrator branches on
OrchestrationInputs ==
    { Input(Simulation(ic, c, t, DefaultTotals, DefaultPrograms, DefaultHouseholds,
                       DefaultPersons, hs, hr),
            DefaultStorage(NumHouseholds)) :
        ic \in BOOLEAN, c \in Countries, t \in Types, hs \in BOOLEAN, hr \in BOOLEAN }

\* the household-level arrays
HouseholdInputs ==
    { Input(Simulation(TRUE, "uk", "general", DefaultTotals, DefaultPrograms, hh,
                       DefaultPersons, TRUE, TRUE),
            DefaultStorage(Len(hh))) :
        hh \in { Households(free) : free \in [Varied -> HouseholdProfiles] }
                 \cup {ScenarioHouseholds} }

\* the person-level arrays
PersonInputs ==
    { Input(Simulation(TRUE, "us", "general", DefaultTotals, DefaultPrograms,
                       DefaultHouseholds, Persons(free), TRUE, TRUE),
            DefaultStorage(NumHouseholds)) :
        free \in [Varied -> PersonProfiles] }

\* the totals and the per-program totals
BudgetInputs ==
    { Input(Simulation(TRUE, "us", "general",
                       [baseline |-> Totals(b[1], b[2], b[3]),
                        reform |-> Totals(r[1], r[2], r[3])],
                       DefaultPrograms, DefaultHouseholds, DefaultPersons, TRUE, TRUE),
            DefaultStorage(NumHouseholds)) :
        b \in Money \X Money \X Money, r \in Money \X Money \X Money }
    \cup
    { Input(Simulation(TRUE, "uk", "general", DefaultTotals,
                       [baseline |-> pb, reform |-> pr],
                       DefaultHouseholds, DefaultPersons, TRUE, TRUE),
            DefaultStorage(NumHouseholds)) :
        pb \in [Programs -> Money], pr \in [Programs -> Money] }

\* the weight matrix and the table of areas
AreaInputs ==
    { Input(Simulation(TRUE, "uk", "general", DefaultTotals, DefaultPrograms,
                       Households(hh), DefaultPersons, TRUE, TRUE),
            Storage(Areas(areas, NumHouseholds))) :
        hh \in [Varied -> AreaHouseholdProfiles],
        areas \in [Varied -> AreaProfiles(NumHouseholds)] }

VariedInputs ==
    OrchestrationInputs \cup HouseholdInputs \cup PersonInputs \cup BudgetInputs
        \cup AreaInputs

\* the same inputs with a reform economy equal to the baseline in every field
ZeroChangeInputs ==
    { [in EXCEPT !.simulation.reform_economy = in.simulation.baseline_economy] :
        in \in OrchestrationInputs \cup HouseholdInputs \cup BudgetInputs \cup AreaInputs }

Inputs == VariedInputs \cup ZeroChangeInputs

(***************************************************************************)
(* The state of one call of calculate_economy_comparison.                  *)
(***************************************************************************)
VARIABLES
    simulation,   \* the argument
    storage,      \* the external storage
    pc,           \* "start", "baseline", "reform", "branch", "done", "raised"
    baseline,     \* the local baseline, None until computed
    reform,       \* the local reform, None until computed
    result,       \* the value returned, None until then
    raised,       \* the exception raised to the caller, "" if none
    calls,        \* calls of simulation.calculate_single_economy, per side
    reads         \* downloads from the external storage

vars == <<simulation, storage, pc, baseline, reform, result, raised, calls, reads>>

Init ==
    /\ \E in \in Inputs : simulation = in.simulation /\ storage = in.storage
    /\ pc = "start"
    /\ baseline = None
    /\ reform = None
    /\ result = None
    /\ raised = ""
    /\ calls = [baseline |-> 0, reform |-> 0]
    /\ reads = 0

\* a variant of CheckIsComparison that goes on without raising
CheckIsComparisonNoRaise ==
    /\ pc = "start"
    /\ pc' = "baseline"
    /\ UNCHANGED <<simulation, storage, baseline, reform, result, raised, calls, reads>>

\* if not simulation.is_comparison: raise ValueError
CheckIsComparison ==
    /\ pc = "start"
    /\ IF simulation.is_comparison
       THEN pc' = "baseline" /\ raised' = raised
       ELSE pc' = "raised" /\ raised' = "ValueError"
    /\ UNCHANGED <<simulation, storage, baseline, reform, result, calls, reads>>

\* baseline = simulation.calculate_single_economy(reform=False)
CalculateBaseline ==
    /\ pc = "baseline"
    /\ baseline' = simulation.baseline_economy
    /\ calls' = [calls EXCEPT !.baseline = @ + 1]
    /\ pc' = "reform"
    /\ UNCHANGED <<simulation, storage, reform, result, raised, reads>>

\* reform = simulation.calculate_single_economy(reform=True)
CalculateReform ==
    /\ pc = "reform"
    /\ reform' = simulation.reform_economy
    /\ calls' = [calls EXCEPT !.reform = @ + 1]
    /\ pc' = "branch"
    /\ UNCHANGED <<simulation, storage, baseline, result, raised, reads>>

\* baseline.type == "general": every aggregator, then the EconomyComparison
General ==
    /\ pc = "branch"
    /\ baseline.type = "general"
    /\ LET country_id == simulation.options.country
           report == GeneralReport(baseline, reform, country_id, storage)
       IN /\ reads' = reads + Downloads(country_id)
          /\ IF Validates(report)
             THEN result' = report /\ pc' = "done" /\ raised' = raised
             ELSE result' = result /\ pc' = "raised" /\ raised' = "ValidationError"
    /\ UNCHANGED <<simulation, storage, baseline, reform, calls>>

\* baseline.type == "cliff": the two scalar pairs
Cliff ==
    /\ pc = "branch"
    /\ baseline.type = "cliff"
    /\ result' = CliffReport(baseline, reform)
    /\ pc' = "done"
    /\ UNCHANGED <<simulation, storage, baseline, reform, raised, calls, reads>>

Next ==
    \/ CheckIsComparison
    \/ CalculateBaseline
    \/ CalculateReform
    \/ General
    \/ Cliff

Spec == Init /\ [][Next]_vars


(***************************************************************************)
(* Properties.  A report is the EconomyComparison returned by the          *)
(* "general" branch.                                                       *)
(***************************************************************************)
Reported == pc = "done" /\ result.is = "EconomyComparison"

Rows == DOMAIN baseline.household_weight

\* the weighted people count of the households whose rank is d
PeopleOfDecile(decile, d) ==
    SumOver([i \in Rows |->
                IF decile[i] = d
                THEN baseline.household_count_people[i] * baseline.household_weight[i]
                ELSE 0], Rows)

\* the sum of the five shares reported for decile d
ShareSum(intra, d) == FSumTo([g \in 1..5 |-> intra.deciles[LABELS[g]][d]], 5)

InUnitInterval(x) == IsFinite(x) /\ FLe(Zero, x) /\ FLe(x, One)

SharesInUnitInterval(intra) ==
    \A g \in 1..5, d \in 1..10 : InUnitInterval(intra.deciles[LABELS[g]][d])

\* C1 as stated: in the result of intra_decile_impact, and of
\* intra_wealth_decile_impact for 'uk', the five shares of every decile 1..10
\* sum to 1 and each lies in [0,1].
C1_SharesSumToOne ==
    Reported =>
        /\ SharesInUnitInterval(result.intra_decile)
        /\ \A d \in 1..10 : ShareSum(result.intra_decile, d) = One
        /\ result.intra_wealth_decile # None =>
            /\ SharesInUnitInterval(result.intra_wealth_decile)
            /\ \A d \in 1..10 : ShareSum(result.intra_wealth_decile, d) = One

\* C1 amended: each share lies in [0,1]; the five shares of a decile sum to 1
\* when the decile's weighted people count is non-zero, and are all 0 (sum 0)
\* when it is zero.
C1_SharesSumToOneOrZero ==
    Reported =>
        /\ SharesInUnitInterval(result.intra_decile)
        /\ \A d \in 1..10 :
             ShareSum(result.intra_decile, d) =
                IF PeopleOfDecile(baseline.household_income_decile, d) # 0
                THEN One ELSE Zero
        /\ result.intra_wealth_decile # None =>
            /\ SharesInUnitInterval(result.intra_wealth_decile)
            /\ \A d \in 1..10 :
                 ShareSum(result.intra_wealth_decile, d) =
                    IF PeopleOfDecile(baseline.household_wealth_decile, d) # 0
                    THEN One ELSE Zero

\* a report in which decile 1 is split between two buckets and decile 3 is empty
C1_Witness ==
    /\ Reported
    /\ result.intra_wealth_decile # None
    /\ \E g \in 1..5 :
         /\ FGt(result.intra_decile.deciles[LABELS[g]][1], Zero)
         /\ FGt(One, result.intra_decile.deciles[LABELS[g]][1])
    /\ PeopleOfDecile(baseline.household_income_decile, 3) = 0

\* the bucket of a finite change n/d (d > 0), by integer comparison with the
\* bounds -0.05, -0.001, 0.001, 0.05, each bound belonging to the bucket below
LabelOf(c) ==
    IF 20 * c.n <= -c.d THEN "Lose more than 5%"
    ELSE IF 1000 * c.n <= -c.d THEN "Lose less than 5%"
    ELSE IF 1000 * c.n <= c.d THEN "No change"
    ELSE IF 20 * c.n <= c.d THEN "Gain less than 5%"
    ELSE "Gain more than 5%"

\* the share of decile d that the households labelled l make up
ShareOfLabel(decile, d, l) ==
    IF PeopleOfDecile(decile, d) = 0 THEN Zero
    ELSE Div(SumOver([i \in Rows |->
                        IF decile[i] = d /\ LabelOf(IncomeChange(baseline, reform, i)) = l
                        THEN baseline.household_count_people[i]
                                * baseline.household_weight[i]
                        ELSE 0], Rows),
             PeopleOfDecile(decile, d))

\* C2: intra_decile_impact counts every household of a decile 1..10 in exactly
\* one bucket, the one whose interval (lower, upper] holds its income_change,
\* a value equal to a bound going to the bucket below; a household of another
\* rank is counted in no row.
C2_OneBucketPerHousehold ==
    Reported =>
        /\ \A i \in Rows : IsFinite(IncomeChange(baseline, reform, i))
        /\ \A g \in 1..5, d \in 1..10 :
             result.intra_decile.deciles[LABELS[g]][d] =
                ShareOfLabel(baseline.household_income_decile, d, LABELS[g])

\* a household whose change is exactly 0.05 shares decile 1 with one whose
\* change is exactly -0.001, and both are counted
C2_Witness ==
    /\ Reported
    /\ \E i, j \in Rows :
         /\ baseline.household_income_decile[i] = 1
         /\ baseline.household_income_decile[j] = 1
         /\ IncomeChange(baseline, reform, i) = Div(5, 100)
         /\ IncomeChange(baseline, reform, j) = Div(-1, 1000)
    /\ result.intra_decile.deciles["Gain less than 5%"][1] = Div(1, 2)
    /\ result.intra_decile.deciles["Lose less than 5%"][1] = Div(1, 2)


(***************************************************************************)
(* Sums over the households of one rank, computed from the arrays.         *)
(***************************************************************************)
\* sum of weight * (reform income - baseline income) over the rank-d households
ChangeOfDecile(decile, d) ==
    SumOver([i \in Rows |->
                IF decile[i] = d
                THEN baseline.household_weight[i]
                        * (reform.household_net_income[i] - baseline.household_net_income[i])
                ELSE 0], Rows)

\* sum of weight * income over the rank-d households of economy e
IncomeOfDecile(e, decile, d) ==
    SumOver([i \in Rows |->
                IF decile[i] = d
                THEN baseline.household_weight[i] * e.household_net_income[i]
                ELSE 0], Rows)

\* sum of the weights of the rank-d households
WeightOfDecile(decile, d) ==
    SumOver([i \in Rows |-> IF decile[i] = d THEN baseline.household_weight[i] ELSE 0],
            Rows)

AreaRows == DOMAIN storage.constituency_names

ZeroChange == reform = baseline

BudgetIsZero ==
    /\ result.budget.budgetary_impact = 0
    /\ result.budget.tax_revenue_impact = 0
    /\ result.budget.state_tax_revenue_impact = 0
    /\ result.budget.benefit_spending_impact = 0
    /\ \A p \in DOMAIN result.detailed_budget.items :
         result.detailed_budget.items[p].difference = 0

\* C3: when reform equals baseline in every field, every impact is exactly 0
\* (the budget impacts, every program difference, every per-decile relative
\* and average change), every decile's 'No change' share holds its whole
\* population with the other four shares 0, and every constituency is tallied
\* under 'No change'.
C3_ZeroChangeAllZero ==
    (Reported /\ ZeroChange) =>
        /\ BudgetIsZero
        /\ \A k \in DOMAIN result.decile.relative : result.decile.relative[k] = Zero
        /\ \A k \in DOMAIN result.decile.average : result.decile.average[k] = Zero
        /\ \A g \in 1..5, d \in 1..10 :
             result.intra_decile.deciles[LABELS[g]][d] =
                IF LABELS[g] = "No change"
                     /\ PeopleOfDecile(baseline.household_income_decile, d) # 0
                THEN One ELSE Zero
        /\ result.constituency_impact # None =>
             result.constituency_impact.outcomes_by_region["uk"]["No change"]
                = Cardinality(AreaRows)

\* the sub-reports of the same population with baseline and reform swapped
SwappedBudget == budgetary_impact(reform, baseline)
SwappedDetailedBudget ==
    detailed_budgetary_impact(reform, baseline, simulation.options.country)
SwappedDecile == decile_impact(reform, baseline)

DeltasNegate ==
    LET budget == SwappedBudget
        detailed == SwappedDetailedBudget
        average == SwappedDecile.average
    IN /\ budget.tax_revenue_impact = -result.budget.tax_revenue_impact
       /\ budget.state_tax_revenue_impact = -result.budget.state_tax_revenue_impact
       /\ budget.benefit_spending_impact = -result.budget.benefit_spending_impact
       /\ budget.budgetary_impact = -result.budget.budgetary_impact
       /\ DOMAIN detailed.items = DOMAIN result.detailed_budget.items
       /\ \A p \in DOMAIN result.detailed_budget.items :
            detailed.items[p].difference = -result.detailed_budget.items[p].difference
       /\ DOMAIN average = DOMAIN result.decile.average
       /\ \A k \in DOMAIN result.decile.average :
            average[k] = FNeg(result.decile.average[k])

\* C4 as stated: swapping baseline and reform negates every delta-valued
\* field, the per-decile relative change included.
C4_SwapNegatesAll ==
    Reported =>
        /\ DeltasNegate
        /\ LET relative == SwappedDecile.relative
           IN /\ DOMAIN relative = DOMAIN result.decile.relative
              /\ \A k \in DOMAIN result.decile.relative :
                   relative[k] = FNeg(result.decile.relative[k])

\* C4 amended: swapping baseline and reform negates exactly the four budget
\* impacts, each program's difference and the per-decile average change; the
\* per-decile relative change is a ratio and is not negated: its numerator
\* negates and its denominator becomes the decile's weighted reform income.
C4_SwapNegatesDeltas ==
    Reported =>
        /\ DeltasNegate
        /\ LET relative == SwappedDecile.relative
           IN /\ DOMAIN relative = DOMAIN result.decile.relative
              /\ \A k \in DOMAIN result.decile.relative :
                   relative[k] =
                      Div(-ChangeOfDecile(baseline.household_income_decile, k),
                          IncomeOfDecile(reform, baseline.household_income_decile, k))

\* a report with non-zero budget impact, program difference and decile change
C4_Witness ==
    /\ Reported
    /\ result.budget.tax_revenue_impact # 0
    /\ \E p \in DOMAIN result.detailed_budget.items :
         result.detailed_budget.items[p].difference # 0
    /\ \E k \in DOMAIN result.decile.average :
         /\ IsFinite(result.decile.average[k])
         /\ result.decile.average[k] # Zero


\* the true proportional change (reform - baseline) / baseline of household i
TrueChange(i) ==
    Div(reform.household_net_income[i] - baseline.household_net_income[i],
        baseline.household_net_income[i])

\* C5: for every household whose baseline and reform net income are both at
\* least 1, income_change equals the true proportional change
\* (reform - baseline) / baseline, and the household is counted in the bucket
\* of that change (a 3% gain in 'Gain less than 5%').
C5_IncomeChangeIsTrueChange ==
    Reported =>
        \A i \in Rows :
            (baseline.household_net_income[i] >= 1 /\ reform.household_net_income[i] >= 1)
            => /\ IncomeChange(baseline, reform, i) = TrueChange(i)
               /\ \A d \in 1..10 :
                    ( /\ baseline.household_income_decile[i] = d
                      /\ baseline.household_count_people[i]
                            * baseline.household_weight[i] > 0 )
                    => FGt(result.intra_decile.deciles[LabelOf(TrueChange(i))][d], Zero)

\* C6: decile_impact reports for each decile d the weighted sum of the income
\* changes of the households of baseline rank d, divided by their weighted
\* baseline income (relative) and by their weight (average); in the
\* 10-household scenario relative[10] = 0.5 and every other decile is 0.
C6_DecileImpactFormula ==
    Reported =>
        LET decile == baseline.household_income_decile
            relative == result.decile.relative
            average == result.decile.average
        IN /\ \A d \in 1..10 :
                (\E i \in Rows : decile[i] = d) =>
                    /\ d \in DOMAIN relative
                    /\ d \in DOMAIN average
                    /\ relative[d] = Div(ChangeOfDecile(decile, d),
                                         IncomeOfDecile(baseline, decile, d))
                    /\ average[d] = Div(ChangeOfDecile(decile, d),
                                        WeightOfDecile(decile, d))
           /\ ( /\ baseline.household_net_income
                     = [i \in 1..10 |-> ScenarioHouseholds[i].baseline_income]
                /\ reform.household_net_income
                     = [i \in 1..10 |-> ScenarioHouseholds[i].reform_income] )
              => /\ relative[10] = Div(1, 2)
                 /\ \A d \in 1..9 : relative[d] = Zero /\ average[d] = Zero

\* two households of decile 1 with different weights, one of which gains
C6_Witness ==
    /\ Reported
    /\ \E i, j \in Rows :
         /\ baseline.household_income_decile[i] = 1
         /\ baseline.household_income_decile[j] = 1
         /\ baseline.household_weight[i] = 2
         /\ baseline.household_weight[j] = 1
         /\ reform.household_net_income[i] # baseline.household_net_income[i]
         /\ reform.household_net_income[j] = baseline.household_net_income[j]
    /\ IsFinite(result.decile.relative[1])
    /\ result.decile.relative[1] # Zero

\* C7: every key of the relative and average maps of decile_impact and of
\* wealth_decile_impact is an integer in 1..10.
C7_DecileKeysInRange ==
    Reported =>
        /\ DOMAIN result.decile.relative \subseteq 1..10
        /\ DOMAIN result.decile.average \subseteq 1..10
        /\ result.wealth_decile # None =>
            /\ DOMAIN result.wealth_decile.relative \subseteq 1..10
            /\ DOMAIN result.wealth_decile.average \subseteq 1..10

\* the call ran the "general" branch to its end, returning or raising
GeneralEnded ==
    /\ pc \in {"done", "raised"}
    /\ calls.reform = 1
    /\ baseline.type = "general"

\* C8: when the baseline has no sex flag the poverty_by_gender sub-report is
\* null, when it has no race attribute the poverty_by_race sub-report is null,
\* and in both cases nothing is raised and the report is returned.
C8_MissingDataIsNull ==
    GeneralEnded =>
        /\ baseline.is_male = None =>
            /\ raised = ""
            /\ Reported
            /\ result.poverty_by_gender = None
        /\ baseline.race = None =>
            /\ raised = ""
            /\ Reported
            /\ result.poverty_by_race = None

\* the report of the same economies and storage for the country 'uk'
UkReport == GeneralReport(baseline, reform, "uk", storage)

\* C9: for a country other than 'uk' the report's constituency_impact,
\* wealth_decile and intra_wealth_decile are null, detailed_budget is the empty
\* mapping, no external read is performed and the other sub-reports are those
\* computed for 'uk'; for 'uk' the four are populated.
C9_CountryGating ==
    /\ simulation.options.country # "uk" => reads = 0
    /\ Reported =>
        IF simulation.options.country # "uk"
        THEN /\ result.constituency_impact = None
             /\ result.wealth_decile = None
             /\ result.intra_wealth_decile = None
             /\ result.detailed_budget = Dict(<<>>)
             /\ LET uk == UkReport
                IN /\ result.budget = uk.budget
                   /\ result.decile = uk.decile
                   /\ result.inequality = uk.inequality
                   /\ result.poverty = uk.poverty
                   /\ result.poverty_by_gender = uk.poverty_by_gender
                   /\ result.poverty_by_race = uk.poverty_by_race
                   /\ result.intra_decile = uk.intra_decile
                   /\ result.labor_supply_response = uk.labor_supply_response
        ELSE /\ result.constituency_impact.is = "UKConstituencyBreakdownWithValues"
             /\ result.wealth_decile.is = "WealthDecileImpactWithValues"
             /\ result.intra_wealth_decile.is = "IntraWealthDecileImpactWithValues"
             /\ DOMAIN result.detailed_budget.items = DOMAIN baseline.programs
             /\ DOMAIN result.detailed_budget.items # {}
             /\ reads = 2

\* a report returned for the country 'us'
C9_Witness ==
    /\ Reported
    /\ simulation.options.country = "us"
    /\ result.constituency_impact = None
    /\ result.decile.average[1] # Zero

\* C10: when the simulation is not a comparison the call raises before either
\* economy is computed, before any aggregator or external read, and returns
\* nothing; when it is a comparison each economy is computed exactly once.
C10_FailsFast ==
    /\ ~simulation.is_comparison =>
        /\ pc \in {"start", "raised"}
        /\ calls = [baseline |-> 0, reform |-> 0]
        /\ baseline = None
        /\ reform = None
        /\ reads = 0
        /\ result = None
        /\ pc = "raised" => raised = "ValueError"
    /\ simulation.is_comparison =>
        /\ raised # "ValueError"
        /\ calls.baseline <= 1
        /\ calls.reform <= 1
        /\ pc \in {"branch", "done"} => calls = [baseline |-> 1, reform |-> 1]

\* the call on a simulation that is not a comparison has raised
C10_Witness ==
    /\ ~simulation.is_comparison
    /\ pc = "raised"
    /\ raised = "ValueError"

\* the thirteen top-level fields of the full report
ReportFields ==
    {"country_package_version", "budget", "detailed_budget", "decile",
     "inequality", "poverty", "poverty_by_gender", "poverty_by_race",
     "intra_decile", "wealth_decile", "intra_wealth_decile",
     "labor_supply_response", "constituency_impact"}

\* C11: a comparison always ends with one of the two report shapes: for the
\* type 'general' the full report with the thirteen fields, every one computed
\* by its aggregator; for the type 'cliff' only the cliff_gap and cliff_share
\* pairs of baseline and reform, with no aggregator run and no external read.
C11_BranchYieldsReport ==
    (simulation.is_comparison /\ pc \in {"done", "raised"}) =>
        /\ pc = "done"
        /\ raised = ""
        /\ baseline.type = "general" =>
            /\ result.is = "EconomyComparison"
            /\ DOMAIN result = ReportFields \cup {"is"}
            /\ result = GeneralReport(baseline, reform,
                                      simulation.options.country, storage)
        /\ baseline.type = "cliff" =>
            /\ result.is = "dict"
            /\ DOMAIN result = {"is", "baseline", "reform"}
            /\ result.baseline = [cliff_gap |-> baseline.cliff_gap,
                                  cliff_share |-> baseline.cliff_share]
            /\ result.reform = [cliff_gap |-> reform.cliff_gap,
                                cliff_share |-> reform.cliff_share]
            /\ reads = 0

\* the four sub-regions, in the order their letters are tried
SubRegions == <<"england", "scotland", "wales", "northern_ireland">>
Letters == <<"E", "S", "W", "N">>

\* the positions of Letters whose letter occurs in the code of area j
LettersIn(j) ==
    {k \in 1..4 :
        \E p \in DOMAIN storage.constituency_names[j].code :
            storage.constituency_names[j].code[p] = Letters[k]}

\* the total of a histogram over the five buckets
Tallied(histogram) == SumOver(histogram, DOMAIN histogram)

RelativeChangeOfArea(j) ==
    result.constituency_impact.by_constituency[storage.constituency_names[j].name]
        .relative_household_income_change

\* the chain of > tests selects for x the bucket the interval test selects
SameBucket(x) == \E g \in 1..5 : InGroup(x, g) /\ LABELS[g] = Bucket(x)

\* C13: for every relative change x, the four boundary values and the
\* undefined change of an area of zero weighted baseline sum included, the
\* chain of > tests of the constituency loop selects the bucket that the
\* (lower, upper] test of intra_decile_impact selects.
C13_SameClassification ==
    (Reported /\ result.constituency_impact # None) =>
        /\ \A g \in 2..5 : SameBucket(BOUNDS[g])
        /\ \A j \in AreaRows : SameBucket(RelativeChangeOfArea(j))

\* an economy's household arrays cut down to the given rows
KeepRows(e, rows) ==
    [e EXCEPT !.household_weight = [i \in rows |-> e.household_weight[i]],
              !.household_count_people = [i \in rows |-> e.household_count_people[i]],
              !.household_net_income = [i \in rows |-> e.household_net_income[i]],
              !.household_income_decile = [i \in rows |-> e.household_income_decile[i]],
              !.household_wealth_decile = [i \in rows |-> e.household_wealth_decile[i]]]

\* the households whose rank has a non-zero weighted people count
RowsOfPeopledDeciles(decile) == {i \in Rows : PeopleOfDecile(decile, decile[i]) # 0}

\* the zero-division policy on the shares intra computed from the ranks decile:
\* 0.0 in all five buckets of a decile without people, a finite quotient of
\* weighted people counts otherwise, the latter being what is computed when
\* the households of the deciles without people are left out
ZeroDivisionPolicy(intra, decile) ==
    LET kept == RowsOfPeopledDeciles(decile)
        without == IntraDeciles(KeepRows(baseline, kept), KeepRows(reform, kept),
                                [i \in kept |-> decile[i]])
    IN \A g \in 1..5, d \in 1..10 :
         IF PeopleOfDecile(decile, d) = 0
         THEN intra.deciles[LABELS[g]][d] = Zero
         ELSE /\ IsFinite(intra.deciles[LABELS[g]][d])
              /\ intra.deciles[LABELS[g]][d] = ShareOfLabel(decile, d, LABELS[g])
              /\ intra.deciles[LABELS[g]][d] = without.deciles[LABELS[g]][d]

\* C14: on every pair of economies the 'general' branch receives,
\* intra_decile_impact and (for 'uk') intra_wealth_decile_impact give, for a
\* decile whose weighted people count is zero, the share 0.0 in each of the
\* five buckets, and for every other decile the quotient of weighted people
\* counts, the same as without the households of the deciles that have no
\* people; a returned report carries these values.
C14_ZeroDivisionPolicy ==
    (calls.reform = 1 /\ baseline.type = "general") =>
        LET country_id == simulation.options.country
            intra == intra_decile_impact(baseline, reform)
            intra_wealth == intra_wealth_decile_impact(baseline, reform, country_id)
        IN /\ ZeroDivisionPolicy(intra, baseline.household_income_decile)
           /\ country_id = "uk" =>
                ZeroDivisionPolicy(intra_wealth, baseline.household_wealth_decile)
           /\ Reported =>
                /\ result.intra_decile = intra
                /\ result.intra_wealth_decile = intra_wealth

\* a report in which rank 1 is held by a zero-weight household only and rank
\* 2 by a household that gains more than 5%
C14_Witness ==
    /\ Reported
    /\ result.intra_wealth_decile # None
    /\ \E i, j \in Rows :
         /\ baseline.household_income_decile[i] = 1
         /\ baseline.household_weight[i] = 0
         /\ baseline.household_income_decile[j] = 2
    /\ PeopleOfDecile(baseline.household_income_decile, 1) = 0
    /\ \A g \in 1..5 : result.intra_decile.deciles[LABELS[g]][1] = Zero
    /\ result.intra_decile.deciles["Gain more than 5%"][2] = One

\* the households whose rank has a non-zero weighted baseline income
RowsOfFundedDeciles(decile) ==
    {i \in Rows : IncomeOfDecile(baseline, decile, decile[i]) # 0}

\* what the division gives for a decile of zero weighted baseline income
Undefined(change) ==
    IF change = 0 THEN NaN ELSE IF change > 0 THEN PosInf ELSE NegInf

\* the other deciles of impact, computed from the ranks decile, are finite in
\* their relative change and are what is computed when the households of the
\* deciles of zero weighted baseline income are left out
OtherDecilesUnaffected(impact, decile) ==
    LET kept == RowsOfFundedDeciles(decile)
        without == DecileChanges(KeepRows(baseline, kept), KeepRows(reform, kept),
                                 [i \in kept |-> decile[i]])
    IN /\ DOMAIN impact.average = DOMAIN impact.relative
       /\ \A k \in DOMAIN impact.relative :
            IncomeOfDecile(baseline, decile, k) # 0 =>
                /\ IsFinite(impact.relative[k])
                /\ k \in DOMAIN without.relative
                /\ impact.relative[k] = without.relative[k]
                /\ impact.average[k] = without.average[k]

\* every decile of zero weighted baseline income has the not-a-number marker
\* as its relative change
DegenerateIsNaN(impact, decile) ==
    \A k \in DOMAIN impact.relative :
        IncomeOfDecile(baseline, decile, k) = 0 => impact.relative[k] = NaN

\* every decile of zero weighted baseline income has as its relative change
\* not-a-number when its weighted change is zero too, and the infinity of the
\* sign of its weighted change otherwise
DegenerateIsUndefined(impact, decile) ==
    \A k \in DOMAIN impact.relative :
        IncomeOfDecile(baseline, decile, k) = 0 =>
            impact.relative[k] = Undefined(ChangeOfDecile(decile, k))

\* C15 as stated: on every pair of economies, decile_impact and (for 'uk')
\* wealth_decile_impact report not-a-number as the relative change of a decile
\* of zero weighted baseline income, and the relative and average changes of
\* the other deciles are those computed without the degenerate deciles.
C15_DegenerateDecileIsNaN ==
    (calls.reform = 1 /\ baseline.type = "general") =>
        LET country_id == simulation.options.country
            decile == decile_impact(baseline, reform)
            wealth_decile == wealth_decile_impact(baseline, reform, country_id)
        IN /\ DegenerateIsNaN(decile, baseline.household_income_decile)
           /\ OtherDecilesUnaffected(decile, baseline.household_income_decile)
           /\ country_id = "uk" =>
                /\ DegenerateIsNaN(wealth_decile, baseline.household_wealth_decile)
                /\ OtherDecilesUnaffected(wealth_decile,
                                          baseline.household_wealth_decile)

\* C15 amended: the relative change of a decile of zero weighted baseline
\* income is not-a-number when the decile's weighted income change is zero
\* and plus or minus infinity, by the sign of that change, when it is not; the
\* relative and average changes of the other deciles are those computed
\* without the degenerate deciles, and a returned report carries these values.
C15_DegenerateDecileIsUndefined ==
    (calls.reform = 1 /\ baseline.type = "general") =>
        LET country_id == simulation.options.country
            decile == decile_impact(baseline, reform)
            wealth_decile == wealth_decile_impact(baseline, reform, country_id)
        IN /\ DegenerateIsUndefined(decile, baseline.household_income_decile)
           /\ OtherDecilesUnaffected(decile, baseline.household_income_decile)
           /\ country_id = "uk" =>
                /\ DegenerateIsUndefined(wealth_decile,
                                         baseline.household_wealth_decile)
                /\ OtherDecilesUnaffected(wealth_decile,
                                          baseline.household_wealth_decile)
           /\ Reported =>
                /\ result.decile = decile
                /\ result.wealth_decile = wealth_decile

\* a report in which decile 1 has zero weighted baseline income and a gain,
\* so an infinite relative change, and decile 2 a finite non-zero one
C15_Witness ==
    /\ Reported
    /\ result.wealth_decile # None
    /\ IncomeOfDecile(baseline, baseline.household_income_decile, 1) = 0
    /\ ChangeOfDecile(baseline.household_income_decile, 1) > 0
    /\ result.decile.relative[1] = PosInf
    /\ 2 \in DOMAIN result.decile.relative
    /\ IsFinite(result.decile.relative[2])
    /\ result.decile.relative[2] # Zero

=============================================================================
